---- MODULE Spec2Model ----
(***************************************************************************)
(* Model of docs/ocr_pdf.py: the PDF -> page images -> Ollama OCR pipeline *)
(* driven by main().  Strings are sequences of one-character strings, so   *)
(* that formatting and joining are computed as Python computes them.       *)
(* Python's None is the record PyNone; a str value s is PyStr(s).          *)
(* The environment (file system, pdf2image, the HTTP server) is chosen     *)
(* nondeterministically; writes to the streams and the output file are     *)
(* taken to succeed.                                                       *)
(***************************************************************************)
EXTENDS Integers, Sequences, FiniteSets, TLC

\* Largest number of pages the renderer returns in the model.
MaxPages == 3

VARIABLES
    pc,            \* position of main(): "start","render","loop","wait","exit"
    pdf_exists,    \* pdf_path.exists()
    args_output,   \* args.output: PyNone when --output is omitted, else PyStr(path)
    render,        \* "not_called" | "ok" | "failed": outcome of convert_from_path
    renderer_calls,\* number of calls of convert_from_path
    images,        \* list returned by convert_pdf_to_images
    i,             \* loop index of enumerate(images, 1)
    all_text,      \* the accumulator list of blocks
    result,        \* "\n".join(all_text), set at line 90
    requests,      \* every requests.post issued so far, in order
    responses,     \* what the server did for each completed request, in order
    page_text,     \* value returned by ocr_image_with_ollama for each page
    stdout,        \* items written to sys.stdout
    stderr,        \* items written to sys.stderr
    file,          \* items written to the --output file
    file_opened,   \* open(args.output, 'w') was executed
    exit_code      \* process exit status, meaningful when pc = "exit"

vars == <<pc, pdf_exists, args_output, render, renderer_calls, images, i,
          all_text, result, requests, responses, page_text, stdout, stderr,
          file, file_opened, exit_code>>

NL == "\n"

----------------------------------------------------------------------------
\* Python values

PyNone == [isNone |-> TRUE, str |-> <<>>]

PyStr(s) == [isNone |-> FALSE, str |-> s]

\* bool(v) for v in {None} \cup str
Truthy(v) == ~v.isNone /\ v.str # <<>>

\* str(n) for a natural number n
RECURSIVE Digits(_)
Digits(n) ==
    LET d == <<"0","1","2","3","4","5","6","7","8","9">>
    IN  IF n < 10 THEN <<d[n + 1]>> ELSE Digits(n \div 10) \o <<d[(n % 10) + 1]>>

\* Join with the separator written after every element, the last included
RECURSIVE Join_TrailingSep(_, _)
Join_TrailingSep(sep, list) ==
    IF list = <<>> THEN <<>>
    ELSE list[1] \o sep \o Join_TrailingSep(sep, Tail(list))

\* sep.join(list)
RECURSIVE Join(_, _)
Join(sep, list) ==
    IF list = <<>> THEN <<>>
    ELSE IF Len(list) = 1 THEN list[1]
    ELSE list[1] \o sep \o Join(sep, Tail(list))

----------------------------------------------------------------------------
\* Inputs

Hello == <<"H","e","l","l","o">>

OutPath == <<"o",".","t","x","t">>

\* args.output: omitted, given as the empty string, given as a path
Outputs == {PyNone, PyStr(<<>>), PyStr(OutPath)}

\* Texts a server may put in the "response" field
Texts == {<<>>, Hello, <<"a", NL>>}

\* What the server does with one POST: connected = FALSE is a transport
\* error (requests.post raises); otherwise an HTTP status and a body, which
\* is valid JSON or not, and holds a "response" field or not.
Responses ==
    {[connected |-> FALSE, status |-> 0, json_ok |-> FALSE, has_response |-> FALSE, response |-> <<>>]}
    \cup {[connected |-> TRUE, status |-> s, json_ok |-> FALSE, has_response |-> FALSE, response |-> <<>>] : s \in {200, 500}}
    \cup {[connected |-> TRUE, status |-> 404, json_ok |-> TRUE, has_response |-> FALSE, response |-> <<>>]}
    \cup {[connected |-> TRUE, status |-> 200, json_ok |-> TRUE, has_response |-> FALSE, response |-> <<>>]}
    \cup {[connected |-> TRUE, status |-> 200, json_ok |-> TRUE, has_response |-> TRUE, response |-> t] : t \in Texts}

----------------------------------------------------------------------------
\* Output streams.  An item is what one call writes: the message (its format
\* string), the page number it is formatted with (0 when none) and, for the
\* OCR text, the characters written.

Diag(msg, page) == [msg |-> msg, page |-> page, data |-> <<>>]

ResultItem(text) == [msg |-> "result", page |-> 0, data |-> text]

\* print(item, file=stream): the text followed by a newline
PyPrint(stream, item) == Append(stream, [item EXCEPT !.data = @ \o <<NL>>])

\* f.write(item): the text as it is
PyWrite(stream, item) == Append(stream, item)

----------------------------------------------------------------------------
\* image_to_base64: the page image is opaque; the encoding is tagged
image_to_base64(image) == [b64_png |-> image]

Prompt == "Extract and return all text from this image. Provide only the text content without any additional commentary."

Payload(base64_image) ==
    [model |-> "gemma3:27b", prompt |-> Prompt, stream |-> FALSE,
     images |-> <<base64_image>>]

\* response.raise_for_status() raises for 4xx and 5xx
RaisesForStatus(resp) == resp.status >= 400 /\ resp.status < 600

\* ocr_image_with_ollama returning the error message instead of None
ocr_image_with_ollama_ReturnsMessage(resp) ==
    IF ~resp.connected \/ RaisesForStatus(resp) \/ ~resp.json_ok
    THEN [ret |-> PyStr(<<"e","r","r">>), error |-> TRUE]
    ELSE [ret |-> PyStr(IF resp.has_response THEN resp.response ELSE <<>>),
          error |-> FALSE]

\* ocr_image_with_ollama reading response.json()['response']: KeyError
\* when the field is missing
ocr_image_with_ollama_KeyError(resp) ==
    IF ~resp.connected \/ RaisesForStatus(resp) \/ ~resp.json_ok
       \/ ~resp.has_response
    THEN [ret |-> PyNone, error |-> TRUE]
    ELSE [ret |-> PyStr(resp.response), error |-> FALSE]

\* The try block of ocr_image_with_ollama on the server's behaviour resp:
\* the value returned and whether the except branch printed the error.
ocr_image_with_ollama(resp) ==
    IF ~resp.connected \/ RaisesForStatus(resp) \/ ~resp.json_ok
    THEN [ret |-> PyNone, error |-> TRUE]
    ELSE [ret |-> PyStr(IF resp.has_response THEN resp.response ELSE <<>>),
          error |-> FALSE]

\* The block labeled with the 0-based index
FormatBlock_ZeroBased(n, text) ==
    <<"-","-","-"," ","P","a","g","e"," ">> \o Digits(n - 1)
        \o <<" ","-","-","-", NL>> \o text \o <<NL>>

\* f"--- Page {i} ---\n{text}\n"
FormatBlock(n, text) ==
    <<"-","-","-"," ","P","a","g","e"," ">> \o Digits(n)
        \o <<" ","-","-","-", NL>> \o text \o <<NL>>

----------------------------------------------------------------------------
Init ==
    /\ pc = "start"
    /\ pdf_exists \in BOOLEAN
    /\ args_output \in Outputs
    /\ render = "not_called"
    /\ renderer_calls = 0
    /\ images = <<>>
    /\ i = 0
    /\ all_text = <<>>
    /\ result = <<>>
    /\ requests = <<>>
    /\ responses = <<>>
    /\ page_text = <<>>
    /\ stdout = <<>>
    /\ stderr = <<>>
    /\ file = <<>>
    /\ file_opened = FALSE
    /\ exit_code = 0

\* The existence check reporting the error without sys.exit(1)
CheckPath_NoExit ==
    /\ pc = "start"
    /\ IF ~pdf_exists
       THEN stderr' = PyPrint(stderr, Diag("Error: File '{pdf_path}' not found", 0))
       ELSE stderr' = PyPrint(stderr, Diag("Converting PDF to images...", 0))
    /\ pc' = "render"
    /\ UNCHANGED <<pdf_exists, args_output, render, renderer_calls, images, i,
                   all_text, result, requests, responses, page_text, stdout,
                   file, file_opened, exit_code>>

\* main, lines 69-74: the existence check
CheckPath ==
    /\ pc = "start"
    /\ IF ~pdf_exists
       THEN /\ stderr' = PyPrint(stderr, Diag("Error: File '{pdf_path}' not found", 0))
            /\ pc' = "exit"
            /\ exit_code' = 1
       ELSE /\ stderr' = PyPrint(stderr, Diag("Converting PDF to images...", 0))
            /\ pc' = "render"
            /\ exit_code' = exit_code
    /\ UNCHANGED <<pdf_exists, args_output, render, renderer_calls, images, i,
                   all_text, result, requests, responses, page_text, stdout,
                   file, file_opened>>

\* convert_pdf_to_images reporting the error and returning [] instead of
\* sys.exit(1)
ConvertPdfToImages_ReturnsEmpty ==
    /\ pc = "render"
    /\ renderer_calls' = renderer_calls + 1
    /\ \/ /\ render' = "failed"
          /\ images' = <<>>
          /\ stderr' = PyPrint(PyPrint(stderr, Diag("Error converting PDF: {e}", 0)),
                               Diag("Processing {len(images)} page(s)...", 0))
       \/ \E n \in 0..MaxPages :
          /\ render' = "ok"
          /\ images' = [p \in 1..n |-> p]
          /\ stderr' = PyPrint(stderr, Diag("Processing {len(images)} page(s)...", n))
    /\ all_text' = <<>>
    /\ i' = 1
    /\ pc' = "loop"
    /\ UNCHANGED <<pdf_exists, args_output, result, requests, responses,
                   page_text, stdout, file, file_opened, exit_code>>

\* main, lines 75-78, with convert_pdf_to_images (18-25): convert_from_path
\* either raises or returns n page images
ConvertPdfToImages ==
    /\ pc = "render"
    /\ renderer_calls' = renderer_calls + 1
    /\ \/ /\ render' = "failed"
          /\ stderr' = PyPrint(stderr, Diag("Error converting PDF: {e}", 0))
          /\ pc' = "exit"
          /\ exit_code' = 1
          /\ UNCHANGED <<images, i, all_text>>
       \/ \E n \in 0..MaxPages :
          /\ render' = "ok"
          /\ images' = [p \in 1..n |-> p]
          /\ stderr' = PyPrint(stderr, Diag("Processing {len(images)} page(s)...", n))
          /\ all_text' = <<>>
          /\ i' = 1
          /\ pc' = "loop"
          /\ exit_code' = exit_code
    /\ UNCHANGED <<pdf_exists, args_output, result, requests, responses,
                   page_text, stdout, file, file_opened>>

\* main, lines 80-83, and ocr_image_with_ollama up to the POST (39-51)
SendRequest ==
    /\ pc = "loop"
    /\ i <= Len(images)
    /\ stderr' = PyPrint(stderr, Diag("Processing page {i}/{len(images)}...", i))
    /\ requests' = Append(requests, [page |-> i, json |-> Payload(image_to_base64(images[i]))])
    /\ pc' = "wait"
    /\ UNCHANGED <<pdf_exists, args_output, render, renderer_calls, images, i,
                   all_text, result, responses, page_text, stdout, file,
                   file_opened, exit_code>>

\* The except branch of ocr_image_with_ollama ending the process with
\* sys.exit(1), as convert_pdf_to_images does
ReceiveResponse_FatalOnError ==
    /\ pc = "wait"
    /\ \E resp \in Responses :
        LET r == ocr_image_with_ollama(resp)
            text == r.ret
        IN  /\ responses' = Append(responses, resp)
            /\ page_text' = Append(page_text, text)
            /\ IF r.error
               THEN /\ stderr' = PyPrint(stderr, Diag("Error calling Ollama API: {e}", 0))
                    /\ pc' = "exit"
                    /\ exit_code' = 1
                    /\ UNCHANGED <<all_text, i>>
               ELSE /\ IF Truthy(text)
                       THEN /\ all_text' = Append(all_text, FormatBlock(i, text.str))
                            /\ stderr' = stderr
                       ELSE /\ all_text' = all_text
                            /\ stderr' = PyPrint(stderr, Diag("Warning: No text extracted from page {i}", i))
                    /\ i' = i + 1
                    /\ pc' = "loop"
                    /\ exit_code' = exit_code
    /\ UNCHANGED <<pdf_exists, args_output, render, renderer_calls, images,
                   result, requests, stdout, file, file_opened>>

\* The loop staying on the same page after a failed call, so that the
\* page is posted again
ReceiveResponse_RetryFailed ==
    /\ pc = "wait"
    /\ \E resp \in Responses :
        LET r == ocr_image_with_ollama(resp)
            text == r.ret
            err == IF r.error
                   THEN PyPrint(stderr, Diag("Error calling Ollama API: {e}", 0))
                   ELSE stderr
        IN  /\ responses' = Append(responses, resp)
            /\ page_text' = Append(page_text, text)
            /\ IF Truthy(text)
               THEN /\ all_text' = Append(all_text, FormatBlock(i, text.str))
                    /\ stderr' = err
               ELSE /\ all_text' = all_text
                    /\ stderr' = PyPrint(err, Diag("Warning: No text extracted from page {i}", i))
            /\ i' = IF text.isNone THEN i ELSE i + 1
    /\ pc' = "loop"
    /\ UNCHANGED <<pdf_exists, args_output, render, renderer_calls, images,
                   result, requests, stdout, file, file_opened, exit_code>>

\* The POST returns or raises (47-56); main appends the block or warns (85-88)
\* and the loop moves to the next page
ReceiveResponse ==
    /\ pc = "wait"
    /\ \E resp \in Responses :
        LET r == ocr_image_with_ollama(resp)
            text == r.ret
            err == IF r.error
                   THEN PyPrint(stderr, Diag("Error calling Ollama API: {e}", 0))
                   ELSE stderr
        IN  /\ responses' = Append(responses, resp)
            /\ page_text' = Append(page_text, text)
            /\ IF Truthy(text)
               THEN /\ all_text' = Append(all_text, FormatBlock(i, text.str))
                    /\ stderr' = err
               ELSE /\ all_text' = all_text
                    /\ stderr' = PyPrint(err, Diag("Warning: No text extracted from page {i}", i))
    /\ i' = i + 1
    /\ pc' = "loop"
    /\ UNCHANGED <<pdf_exists, args_output, render, renderer_calls, images,
                   result, requests, stdout, file, file_opened, exit_code>>

\* The emit step printing the result also when it wrote the file
Emit_AlsoPrints ==
    /\ pc = "loop"
    /\ i > Len(images)
    /\ result' = Join(<<NL>>, all_text)
    /\ IF Truthy(args_output)
       THEN /\ file_opened' = TRUE
            /\ file' = PyWrite(<<>>, ResultItem(result'))
            /\ stderr' = PyPrint(stderr, Diag("Output written to {args.output}", 0))
       ELSE UNCHANGED <<file, file_opened, stderr>>
    /\ stdout' = PyPrint(stdout, ResultItem(result'))
    /\ pc' = "exit"
    /\ exit_code' = 0
    /\ UNCHANGED <<pdf_exists, args_output, render, renderer_calls, images, i,
                   all_text, requests, responses, page_text>>

\* main, lines 90-97: join and write to the sink; main returns, status 0
Emit ==
    /\ pc = "loop"
    /\ i > Len(images)
    /\ result' = Join(<<NL>>, all_text)
    /\ IF Truthy(args_output)
       THEN /\ file_opened' = TRUE
            /\ file' = PyWrite(<<>>, ResultItem(result'))
            /\ stderr' = PyPrint(stderr, Diag("Output written to {args.output}", 0))
            /\ stdout' = stdout
       ELSE /\ stdout' = PyPrint(stdout, ResultItem(result'))
            /\ UNCHANGED <<file, file_opened, stderr>>
    /\ pc' = "exit"
    /\ exit_code' = 0
    /\ UNCHANGED <<pdf_exists, args_output, render, renderer_calls, images, i,
                   all_text, requests, responses, page_text>>

Next ==
    \/ CheckPath
    \/ ConvertPdfToImages
    \/ SendRequest
    \/ ReceiveResponse
    \/ Emit

Spec == Init /\ [][Next]_vars

\* Every POST returns or raises, and main runs on: the interpreter keeps
\* executing the single thread.
FairSpec == Spec /\ WF_vars(Next)

----------------------------------------------------------------------------
\* Vocabulary of the properties

\* The label line of page k, without its newline
Label(k) == <<"-","-","-"," ","P","a","g","e"," ">> \o Digits(k) \o <<" ","-","-","-">>

IsPrefix(p, s) == Len(p) <= Len(s) /\ SubSeq(s, 1, Len(p)) = p

\* p occurs in s somewhere
Occurs(p, s) ==
    \E o \in 0..Len(s) : o + Len(p) <= Len(s) /\ SubSeq(s, o + 1, o + Len(p)) = p

\* The block is the one labeled page k
LabeledBlock(k, block) == IsPrefix(Label(k) \o <<NL>>, block)

\* The call failed: transport error, or an HTTP error status
FailedCall(resp) == ~resp.connected \/ resp.status >= 400

\* The server answered 200 with a JSON object whose "response" is "" or missing
EmptyOrMissing(resp) ==
    /\ resp.connected /\ resp.status = 200 /\ resp.json_ok
    /\ (~resp.has_response \/ resp.response = <<>>)

\* main went through the loop and the emit step and returned
Emitted == pc = "exit" /\ render = "ok"

\* The loop is over
AfterLoop == render = "ok" /\ i > Len(images) /\ pc \in {"loop", "exit"}

\* The characters written to a stream
RECURSIVE Content(_)
Content(stream) ==
    IF stream = <<>> THEN <<>> ELSE Head(stream).data \o Content(Tail(stream))

\* The positions of a stream holding the message msg
Holding(stream, msg) == {n \in 1..Len(stream) : stream[n].msg = msg}

----------------------------------------------------------------------------
\* C1: when the inference call of page k fails (transport error or HTTP
\* error status), ocr_image_with_ollama returns None for it, no block labeled
\* "--- Page k ---" is in the accumulator or in the final output, and by the
\* end of the run a call has been issued for each of the pages k+1..N.
C1_FailedPageSkippedRunContinues ==
    \A k \in 1..Len(responses) :
        FailedCall(responses[k]) =>
            /\ page_text[k] = PyNone
            /\ \A b \in 1..Len(all_text) : ~LabeledBlock(k, all_text[b])
            /\ Emitted =>
                /\ ~Occurs(Label(k), result)
                /\ \A j \in (k + 1)..Len(images) :
                      \E q \in 1..Len(requests) : requests[q].page = j
            /\ (pc = "loop" /\ i <= Len(images)) => ENABLED SendRequest

\* A finished run of at least three pages whose first page failed, whose
\* second gave text, and whose last failed too
C1_Witness ==
    /\ Emitted
    /\ Len(images) >= 3
    /\ Len(responses) = Len(images)
    /\ FailedCall(responses[1])
    /\ Truthy(page_text[2])
    /\ FailedCall(responses[Len(images)])
    /\ Len(requests) = Len(images)

\* C2: after the loop the accumulator holds exactly one block for each page
\* whose result is a non-empty string and none for any other page; the
\* blocks are in strictly increasing page order, each labeled with the
\* 1-based index of the page whose text it carries; at most N blocks.
C2_OneBlockPerNonEmptyPage ==
    AfterLoop =>
        LET N == Len(images)
            P == {p \in 1..N : ~page_text[p].isNone /\ Len(page_text[p].str) > 0}
            PageOf(b) == CHOOSE p \in 1..N : LabeledBlock(p, all_text[b])
        IN  /\ Len(page_text) = N
            /\ Len(all_text) = Cardinality(P)
            /\ Len(all_text) <= N
            /\ \A b \in 1..Len(all_text) :
                  \E p \in P : all_text[b] = Label(p) \o <<NL>> \o page_text[p].str \o <<NL>>
            /\ \A p \in P :
                  Cardinality({b \in 1..Len(all_text) : LabeledBlock(p, all_text[b])}) = 1
            /\ \A p \in (1..N) \ P :
                  \A b \in 1..Len(all_text) : ~LabeledBlock(p, all_text[b])
            /\ \A b \in 1..(Len(all_text) - 1) : PageOf(b) < PageOf(b + 1)

\* Three pages, the middle one without text: blocks for pages 1 and 3
C2_Witness ==
    /\ AfterLoop
    /\ Len(images) = 3
    /\ Len(all_text) = 2
    /\ LabeledBlock(1, all_text[1])
    /\ LabeledBlock(3, all_text[2])

\* C3: the content main writes to the file when --output is supplied is
\* exactly the string it writes to standard output when --output is
\* omitted, for the same pages and results: in a run that wrote the file,
\* the file holds what print(result) puts on standard output.
C3_FileEqualsStdout ==
    (Emitted /\ file_opened) =>
        Content(file) = Content(PyPrint(<<>>, ResultItem(result)))

\* C4: with a missing input path main exits with a non-zero status; the
\* renderer is never called, no request is issued, and nothing is written
\* to standard output or to the output file.
C4_MissingInputIsFatal ==
    ~pdf_exists =>
        /\ pc \in {"start", "exit"}
        /\ pc = "start" => ENABLED CheckPath
        /\ pc = "exit" => exit_code # 0
        /\ renderer_calls = 0
        /\ render = "not_called"
        /\ requests = <<>>
        /\ stdout = <<>>
        /\ file = <<>>
        /\ ~file_opened

\* The run on a missing path has ended, with --output given
C4_Witness ==
    /\ ~pdf_exists
    /\ pc = "exit"
    /\ Truthy(args_output)
    /\ Holding(stderr, "Error: File '{pdf_path}' not found") = {1}

\* C5: when convert_from_path raises, the process ends at once with a
\* non-zero status: no request is issued and nothing is written to standard
\* output or to the output file.
C5_RenderFailureIsFatal ==
    render = "failed" =>
        /\ pc = "exit"
        /\ exit_code # 0
        /\ requests = <<>>
        /\ responses = <<>>
        /\ all_text = <<>>
        /\ stdout = <<>>
        /\ file = <<>>
        /\ ~file_opened

\* The renderer was called on an existing file and failed
C5_Witness ==
    /\ render = "failed"
    /\ pdf_exists
    /\ renderer_calls = 1
    /\ Truthy(args_output)

\* C6: once the file exists and rendering succeeded, the run reaches the
\* emit step and exits with status 0 whatever the pages' outcomes are; a
\* page's failure never ends the run with a fatal status.
C6_RecoverableNeverFatal ==
    /\ [](render = "ok" /\ pc = "exit" =>
            /\ exit_code = 0
            /\ Len(responses) = Len(images)
            /\ (stdout # <<>> \/ file_opened))
    /\ (render = "ok") ~> (pc = "exit" /\ exit_code = 0)

\* Every page of a run of at least two pages failed and the run ended
C6_Witness ==
    /\ Emitted
    /\ Len(images) >= 2
    /\ Len(responses) = Len(images)
    /\ \A k \in 1..Len(images) : FailedCall(responses[k])
    /\ exit_code = 0

\* C7: when the server answers 200 with a JSON object whose "response" is
\* the empty string or is missing, ocr_image_with_ollama returns "" (not
\* None) and logs no error; main appends no block for the page and writes
\* exactly the one warning of page i to standard error.
C7_EmptyResponseWarnsOnly ==
    [][(pc = "wait" /\ pc' = "loop"
          /\ Len(responses') = Len(responses) + 1
          /\ EmptyOrMissing(responses'[Len(responses')]))
       => /\ page_text' = Append(page_text, PyStr(<<>>))
          /\ all_text' = all_text
          /\ Len(stderr') = Len(stderr) + 1
          /\ SubSeq(stderr', 1, Len(stderr)) = stderr
          /\ stderr'[Len(stderr')].msg = "Warning: No text extracted from page {i}"
          /\ stderr'[Len(stderr')].page = i
          /\ i' = i + 1]_vars

\* The second page's answer had no "response" field; the first page's was ""
C7_Witness ==
    /\ pc = "loop"
    /\ Len(responses) = 2
    /\ EmptyOrMissing(responses[1]) /\ responses[1].has_response
    /\ EmptyOrMissing(responses[2]) /\ ~responses[2].has_response
    /\ all_text = <<>>

\* Where block b starts in the joined output: after the earlier blocks and
\* one separator character for each
RECURSIVE Offset(_, _)
Offset(blocks, b) ==
    IF b = 1 THEN 0 ELSE Offset(blocks, b - 1) + Len(blocks[b - 1]) + 1

\* The answer 200 {"response": t}
Answer(t) ==
    [connected |-> TRUE, status |-> 200, json_ok |-> TRUE, has_response |-> TRUE,
     response |-> t]

\* C8: for two pages answered {"response": "Hello"} and {"response": ""} the
\* final output is exactly "--- Page 1 ---\nHello\n"; in general the final
\* output is the blocks in order with a single newline between consecutive
\* blocks (each block ends with a newline, so one blank line separates
\* them), nothing before, after or besides, and it is empty when no page
\* produced text.
C8_FinalOutputIsJoinedBlocks ==
    Emitted =>
        LET n == Len(all_text) IN
        /\ (Len(images) = 2 /\ responses = <<Answer(Hello), Answer(<<>>)>>) =>
              result = <<"-","-","-"," ","P","a","g","e"," ","1"," ","-","-","-","\n",
                         "H","e","l","l","o","\n">>
        /\ n = 0 => result = <<>>
        /\ n > 0 =>
              /\ Len(result) = Offset(all_text, n) + Len(all_text[n])
              /\ \A b \in 1..n :
                    /\ SubSeq(result, Offset(all_text, b) + 1,
                              Offset(all_text, b) + Len(all_text[b])) = all_text[b]
                    /\ all_text[b][Len(all_text[b])] = "\n"
              /\ \A b \in 1..(n - 1) :
                    result[Offset(all_text, b) + Len(all_text[b]) + 1] = "\n"

\* The two-page scenario has run to its end
C8_Witness ==
    /\ Emitted
    /\ Len(images) = 2
    /\ responses = <<Answer(Hello), Answer(<<>>)>>
    /\ Len(all_text) = 1
    /\ Len(result) = 21

\* C9: the driver issues one request per page, in page order and never
\* twice for a page (no retry), each carrying that page's image alone; the
\* request of a page is issued only when every earlier request has returned
\* or raised; a finished run of N pages has issued exactly N requests.
C9_OneRequestPerPageInOrder ==
    /\ Len(requests) <= Len(images)
    /\ \A q \in 1..Len(requests) :
          /\ requests[q].page = q
          /\ requests[q].json.images = <<image_to_base64(images[q])>>
    /\ Len(responses) <= Len(requests)
    /\ Len(requests) <= Len(responses) + 1
    /\ (Len(requests) = Len(responses) + 1) <=> (pc = "wait")
    /\ Emitted => Len(requests) = Len(images)

\* A finished run of at least three pages with a failed page in the middle
C9_Witness ==
    /\ Emitted
    /\ Len(images) >= 3
    /\ Len(requests) = Len(images)
    /\ FailedCall(responses[2])
    /\ ~FailedCall(responses[3])

\* C10 as stated: the final text goes to the file whenever --output was
\* supplied and to standard output otherwise.
C10_FileWheneverOutputSupplied ==
    Emitted =>
        IF ~args_output.isNone
        THEN Len(file) = 1 /\ file_opened /\ stdout = <<>>
        ELSE Len(stdout) = 1 /\ file = <<>> /\ ~file_opened

\* C10, amended: nothing is written to standard output or to the file
\* before all N pages have been processed; the run that reaches the emit
\* step writes the final text once, to exactly one sink: the file if
\* --output was supplied with a non-empty path, standard output if it was
\* omitted or empty; every diagnostic message is on standard error and none
\* on standard output or in the file.
C10_OneSinkAfterAllPages ==
    /\ ~Emitted => (stdout = <<>> /\ file = <<>> /\ ~file_opened)
    /\ Emitted =>
          /\ Len(responses) = Len(images)
          /\ IF ~args_output.isNone /\ Len(args_output.str) > 0
             THEN /\ Len(file) = 1 /\ file_opened /\ stdout = <<>>
                  /\ Cardinality(Holding(stderr, "Output written to {args.output}")) = 1
             ELSE /\ Len(stdout) = 1 /\ file = <<>> /\ ~file_opened
                  /\ Holding(stderr, "Output written to {args.output}") = {}
    /\ \A n \in 1..Len(stdout) : stdout[n].msg = "result"
    /\ \A n \in 1..Len(file) : file[n].msg = "result"
    /\ \A n \in 1..Len(stderr) : stderr[n].msg # "result"
    /\ pc # "start" => Len(stderr) >= 1
    /\ render = "ok" =>
          /\ Cardinality(Holding(stderr, "Converting PDF to images...")) = 1
          /\ Cardinality(Holding(stderr, "Processing {len(images)} page(s)...")) = 1
          /\ Cardinality(Holding(stderr, "Processing page {i}/{len(images)}...")) = Len(requests)
          /\ Cardinality(Holding(stderr, "Warning: No text extracted from page {i}"))
                = Cardinality({k \in 1..Len(page_text) : ~Truthy(page_text[k])})
          /\ Cardinality(Holding(stderr, "Error calling Ollama API: {e}"))
                = Cardinality({k \in 1..Len(page_text) : page_text[k].isNone})

\* --output "" was given and the run printed to standard output
C10_Witness ==
    /\ Emitted
    /\ args_output = PyStr(<<>>)
    /\ Len(images) >= 2
    /\ Len(all_text) >= 1
    /\ Len(stdout) = 1
    /\ file = <<>>

====
